---- MODULE Spec2Model ----
(***************************************************************************)
(* Mammography preprocessing (src/preprocess.py): the geometric and        *)
(* radiometric stages of MammoPreprocessorBase, the CBIS-DDSM and RSNA     *)
(* preprocess_image pipelines, and the batch driver preprocess_all.        *)
(*                                                                         *)
(* An array is a record [kind, h, w, bits, px]: kind "array" is a numpy    *)
(* 2-D array of shape (h, w) whose unsigned integer dtype has `bits` bits, *)
(* px[r][c] its pixel at row r, column c (0-based, as numpy indexes);      *)
(* kind "scalar" is the Python int 0 that _combine_masks returns when the  *)
(* image has no metadata row; kind "none" is None (no mask given).         *)
(* A point is <<x, y>> (column, row), as cv2 contours hold them.           *)
(***************************************************************************)
EXTENDS Integers, Sequences, FiniteSets, TLC

\* ------------------------------------------------------------ bounds
\* Input images have at most MaxH rows and MaxW columns and at most MaxLit
\* nonzero pixels, each 1 (dim) or Bright.
MaxH == 3
MaxW == 3
MaxLit == 3
Bright == 25
\* The configured image_size (height, width), scaled down from (4096, 2048).
TargetH == 2
TargetW == 2

\* ------------------------------------------------------------ arrays
Arr(h, w, bits, F(_, _)) ==
  [kind |-> "array", h |-> h, w |-> w, bits |-> bits,
   px |-> [r \in 0..(h - 1) |-> [c \in 0..(w - 1) |-> F(r, c)]]]

None == [kind |-> "none", h |-> 0, w |-> 0, bits |-> 0, px |-> <<>>]

Scalar0 == [kind |-> "scalar", h |-> 0, w |-> 0, bits |-> 0, px |-> <<>>]

Cells(a) == (0..(a.h - 1)) \X (0..(a.w - 1))

Values(a) == {a.px[rc[1]][rc[2]] : rc \in Cells(a)}

SetMax(S) == CHOOSE m \in S : \A v \in S : v <= m

SetMin(S) == CHOOSE m \in S : \A v \in S : m <= v

Abs(n) == IF n < 0 THEN -n ELSE n

\* numpy's img.max(); the callers below reach it only on non-empty arrays.
ImgMax(a) == SetMax(Values(a))

ImgMin(a) == SetMin(Values(a))

\* f[0] + ... + f[n].
RECURSIVE SumTo(_, _)
SumTo(n, f) == IF n < 0 THEN 0 ELSE f[n] + SumTo(n - 1, f)

\* n / d rounded to the nearest integer, halves to the even one (cvRound).
RoundDiv(n, d) ==
  LET q == n \div d
      r == n % d
  IN  IF 2 * r > d THEN q + 1
      ELSE IF 2 * r = d THEN q + (q % 2)
      ELSE q

\* ------------------------------------------------------------ _binarize
\* Variant: the threshold compared with >=, which makes an all-zero image all
\* foreground.
BinarizeInclusive(img) ==
  LET m == ImgMax(img)
  IN  Arr(img.h, img.w, 8, LAMBDA r, c : IF 20 * img.px[r][c] >= m THEN 1 ELSE 0)

\* img > img.max() * 0.05, as uint8 0/1.  On integers p > 0.05 * m is
\* 20 * p > m.
Binarize(img) ==
  LET m == ImgMax(img)
  IN  Arr(img.h, img.w, 8, LAMBDA r, c : IF 20 * img.px[r][c] > m THEN 1 ELSE 0)

\* ------------------------------------------------------------ _find_contours
\* cv2.findContours(bin, RETR_EXTERNAL, CHAIN_APPROX_NONE): the outer border
\* of every 8-connected component of nonzero pixels, followed from the
\* component's first pixel in raster order (Suzuki-Abe border following).
\* A component nested in a hole of another one is skipped by RETR_EXTERNAL;
\* that takes a 5 x 5 image, beyond the bounds here.
Deltas == << <<1, 0>>, <<1, -1>>, <<0, -1>>, <<-1, -1>>,
             <<-1, 0>>, <<-1, 1>>, <<0, 1>>, <<1, 1>> >>

Step(p, s) == <<p[1] + Deltas[(s % 8) + 1][1], p[2] + Deltas[(s % 8) + 1][2]>>

Lit(bin, p) ==
  /\ p[1] \in 0..(bin.w - 1)
  /\ p[2] \in 0..(bin.h - 1)
  /\ bin.px[p[2]][p[1]] # 0

LitSet(bin) == {p \in (0..(bin.w - 1)) \X (0..(bin.h - 1)) : Lit(bin, p)}

Nbr8(p) == {Step(p, s) : s \in 0..7}

RECURSIVE Grow8(_, _)
Grow8(lit, S) ==
  LET N == S \cup {q \in lit : \E p \in S : q \in Nbr8(p)}
  IN  IF N = S THEN S ELSE Grow8(lit, N)

RasterLess(p, q) == p[2] < q[2] \/ (p[2] = q[2] /\ p[1] < q[1])

\* The pixels where the raster scan meets a component for the first time.
Starts(bin) ==
  LET lit == LitSet(bin)
  IN  {p \in lit : \A q \in Grow8(lit, {p}) : q = p \/ RasterLess(p, q)}

\* The first neighbour search runs clockwise from the west: NW, N, NE, E, SE,
\* S, SW.  -1: no neighbour, the component is one pixel.
FirstDirs == <<3, 2, 1, 0, 7, 6, 5>>

FirstDir(bin, p) ==
  LET ks == {k \in 1..7 : Lit(bin, Step(p, FirstDirs[k]))}
  IN  IF ks = {} THEN -1 ELSE FirstDirs[SetMin(ks)]

\* From pixel i3, entered against direction s, the next border pixel is the
\* first nonzero neighbour counter-clockwise after s; the walk ends when it
\* is about to repeat its first step.
RECURSIVE Trace(_, _, _, _, _, _)
Trace(bin, i0, i1, i3, s, acc) ==
  LET k == SetMin({n \in 1..8 : Lit(bin, Step(i3, s + n))})
      s4 == (s + k) % 8
      i4 == Step(i3, s4)
      acc2 == Append(acc, i3)
  IN  IF i4 = i0 /\ i3 = i1 THEN acc2
      ELSE Trace(bin, i0, i1, i4, (s4 + 4) % 8, acc2)

Contour(bin, i0) ==
  LET s == FirstDir(bin, i0)
  IN  IF s = -1 THEN <<i0>> ELSE Trace(bin, i0, Step(i0, s), i0, s, <<>>)

FindContours(bin) == {Contour(bin, p) : p \in Starts(bin)}

\* Twice cv2.contourArea: the absolute value of the shoelace sum.
Area2(c) ==
  LET n == Len(c)
      Prev(i) == IF i = 1 THEN n ELSE i - 1
  IN  Abs(SumTo(n - 1, [i \in 0..(n - 1) |->
            c[Prev(i + 1)][1] * c[i + 1][2] - c[Prev(i + 1)][2] * c[i + 1][1]]))

\* max(contours, key=cv2.contourArea): a contour of the largest area.  Which
\* of several equally large ones comes first depends on the order cv2 lists
\* them in, so each of them is a possible result.  The empty set: max() of an
\* empty sequence raises ValueError.
LargestContours(bin) ==
  LET all == FindContours(bin)
  IN  {c \in all : \A d \in all : Area2(d) <= Area2(c)}

PointsOf(c) == {c[i] : i \in 1..Len(c)}

\* ------------------------------------------------------------ _correct_side
ColSum(img, c) == SumTo(img.h - 1, [r \in 0..(img.h - 1) |-> img.px[r][c]])

\* np.array_split(col_sums, 2): the first part takes the extra column of an
\* odd width.
LeftWidth(img) == img.w - (img.w \div 2)

LeftSum(img) ==
  SumTo(LeftWidth(img) - 1, [c \in 0..(LeftWidth(img) - 1) |-> ColSum(img, c)])

RightSum(img) ==
  SumTo(img.w - LeftWidth(img) - 1,
        [c \in 0..(img.w - LeftWidth(img) - 1) |-> ColSum(img, LeftWidth(img) + c)])

\* if left_col_sum > right_col_sum: the image is returned as it is.
KeepsSide(img) == LeftSum(img) > RightSum(img)

Fliplr(a) == Arr(a.h, a.w, a.bits, LAMBDA r, c : a.px[r][a.w - 1 - c])

CorrectSide(img) == IF KeepsSide(img) THEN img ELSE Fliplr(img)

\* ------------------------------------------------------------ _remove_background
Nbr4(p) == {Step(p, 0), Step(p, 2), Step(p, 4), Step(p, 6)}

RECURSIVE Grow4(_, _)
Grow4(free, S) ==
  LET N == S \cup {q \in free : \E p \in S : q \in Nbr4(p)}
  IN  IF N = S THEN S ELSE Grow4(free, N)

\* cv2.drawContours(mask, [contour], -1, 255, cv2.FILLED) paints the contour
\* and all it encloses: every pixel that no 4-connected path of pixels off
\* the contour joins to the outside of the image.
FillRegion(contour, h, w) ==
  LET all == (0..(w - 1)) \X (0..(h - 1))
      free == all \ PointsOf(contour)
      rim == {p \in free : p[1] = 0 \/ p[2] = 0 \/ p[1] = w - 1 \/ p[2] = h - 1}
  IN  all \ Grow4(free, rim)

DrawContours(contour, h, w) ==
  LET region == FillRegion(contour, h, w)
  IN  Arr(h, w, 8, LAMBDA r, c : IF <<c, r>> \in region THEN 255 ELSE 0)

\* img * mask with remove_wlines false: the mask holds 0 and 255 and the
\* product keeps the image's dtype, so it wraps modulo 2^bits.
MultiplyMask(img, mask) ==
  Arr(img.h, img.w, img.bits,
      LAMBDA r, c : (img.px[r][c] * mask.px[r][c]) % (2 ^ img.bits))

RemoveBackground(img, contour) ==
  MultiplyMask(img, DrawContours(contour, img.h, img.w))

\* ------------------------------------------------------------ _crop_roi
XsOf(contour) == {p[1] : p \in PointsOf(contour)}

YsOf(contour) == {p[2] : p \in PointsOf(contour)}

\* a[y1:y2, x1:x2]: the last row and column of the bounding box are left out.
Slice(a, y1, y2, x1, x2) ==
  Arr(y2 - y1, x2 - x1, a.bits, LAMBDA r, c : a.px[y1 + r][x1 + c])

CropRoi(a, contour) ==
  Slice(a, SetMin(YsOf(contour)), SetMax(YsOf(contour)),
           SetMin(XsOf(contour)), SetMax(XsOf(contour)))

\* ------------------------------------------------------------ cv2.resize
\* INTER_LINEAR (the image): the source position of destination column c is
\* (c + 0.5) * w / dw - 0.5, clamped to the image; positions and weights are
\* kept exact here, as numerators over 2 * dw and 2 * dh.
LinearAt(a, dw, dh, r, c) ==
  LET fx == (2 * c + 1) * a.w - dw
      fy == (2 * r + 1) * a.h - dh
      sx0 == fx \div (2 * dw)
      sy0 == fy \div (2 * dh)
      edgeX == sx0 < 0 \/ sx0 >= a.w - 1
      edgeY == sy0 < 0 \/ sy0 >= a.h - 1
      sx == IF sx0 < 0 THEN 0 ELSE IF sx0 >= a.w - 1 THEN a.w - 1 ELSE sx0
      sy == IF sy0 < 0 THEN 0 ELSE IF sy0 >= a.h - 1 THEN a.h - 1 ELSE sy0
      ax == IF edgeX THEN 0 ELSE fx - sx0 * 2 * dw
      ay == IF edgeY THEN 0 ELSE fy - sy0 * 2 * dh
      sx1 == IF edgeX THEN sx ELSE sx + 1
      sy1 == IF edgeY THEN sy ELSE sy + 1
      num == (2 * dw - ax) * (2 * dh - ay) * a.px[sy][sx]
             + ax * (2 * dh - ay) * a.px[sy][sx1]
             + (2 * dw - ax) * ay * a.px[sy1][sx]
             + ax * ay * a.px[sy1][sx1]
  IN  RoundDiv(num, 4 * dw * dh)

ResizeLinear(a, dw, dh) ==
  Arr(dh, dw, a.bits, LAMBDA r, c : LinearAt(a, dw, dh, r, c))

\* INTER_NEAREST (the mask): source column min(floor(c * w / dw), w - 1).
NearestIdx(i, n, dn) == IF (i * n) \div dn < n - 1 THEN (i * n) \div dn ELSE n - 1

ResizeNearest(a, dw, dh) ==
  Arr(dh, dw, a.bits,
      LAMBDA r, c : a.px[NearestIdx(r, a.h, dh)][NearestIdx(c, a.w, dw)])

\* ------------------------------------------------------------ _resize_to_height
RECURSIVE Gcd(_, _)
Gcd(a, b) == IF b = 0 THEN a ELSE Gcd(b, a % b)

IsPow2(n) == \E k \in 0..n : 2 ^ k = n

\* int(size[0] / (h / w)).  h / w is a double: when w / gcd(h, w) is a power
\* of two it is exact and so is the quotient; otherwise the quotient of an
\* exact division may fall just below the integer and truncate to one less
\* (int(9 / (9 / 7)) is 6).
NewWidths(size, h, w) ==
  LET q == (size[1] * w) \div h
  IN  IF (size[1] * w) % h = 0 /\ ~IsPow2(w \div Gcd(h, w))
      THEN {q - 1, q} ELSE {q}

ResizeToHeightImg(img, size, nw) == ResizeLinear(img, nw, size[1])

ResizeToHeightMask(mask, size, nw) == ResizeNearest(mask, nw, size[1])

\* ------------------------------------------------------------ _padresize_to_width
\* cv2.copyMakeBorder(a, 0, 0, 0, n, BORDER_CONSTANT, value=(0, 0, 0)).
PadRight(a, n) ==
  Arr(a.h, a.w + n, a.bits, LAMBDA r, c : IF c < a.w THEN a.px[r][c] ELSE 0)

\* Variant: the wider image is left as it is.
PadResizeImgPadOnly(img, size) ==
  IF img.w < size[2] THEN PadRight(img, size[2] - img.w) ELSE img

\* Variant: the mask is resized with the image but never padded.
PadResizeMaskUnpadded(img, size, mask) ==
  IF img.w > size[2] THEN ResizeNearest(mask, size[2], size[1]) ELSE mask

\* h, w = img.shape decide both the image's and the mask's branch.
PadResizeImg(img, size) ==
  IF img.w < size[2] THEN PadRight(img, size[2] - img.w)
  ELSE IF img.w > size[2] THEN ResizeLinear(img, size[2], size[1])
  ELSE img

PadResizeMask(img, size, mask) ==
  IF img.w < size[2] THEN PadRight(mask, size[2] - img.w)
  ELSE IF img.w > size[2] THEN ResizeNearest(mask, size[2], size[1])
  ELSE mask

\* ------------------------------------------------------------ _convert_to_8bit, _hist_eq
\* Variant: a rescale between the image's minimum and maximum.
ConvertTo8bitMinMax(img, nan8) ==
  LET m == ImgMax(img)
      lo == ImgMin(img)
  IN  Arr(img.h, img.w, 8,
          LAMBDA r, c : IF m = lo THEN nan8
                        ELSE ((img.px[r][c] - lo) * 255) \div (m - lo))

\* (img / img.max() * 255).astype(np.uint8): the quotient is truncated.  A zero
\* maximum makes every quotient 0 / 0 = NaN, and the cast of NaN to uint8 is
\* whatever the build produces: nan8.
ConvertTo8bit(img, nan8) ==
  LET m == ImgMax(img)
  IN  Arr(img.h, img.w, 8,
          LAMBDA r, c : IF m = 0 THEN nan8 ELSE (img.px[r][c] * 255) \div m)

\* cv2.equalizeHist on an 8-bit image: a constant image is returned as it is;
\* otherwise value v maps to round(255 * n(v) / (total - n0)), n(v) counting
\* the pixels above the least value and up to v, n0 those of the least value.
EqualizeHist(img) ==
  LET lo == ImgMin(img)
      Count(v) == Cardinality({rc \in Cells(img) :
                     img.px[rc[1]][rc[2]] > lo /\ img.px[rc[1]][rc[2]] <= v})
      rest == Count(255)
  IN  IF rest = 0 THEN img
      ELSE Arr(img.h, img.w, 8,
               LAMBDA r, c : RoundDiv(255 * Count(img.px[r][c]), rest))

HistEq(img, nan8) == EqualizeHist(ConvertTo8bit(img, nan8))

\* ------------------------------------------------------------ _combine_masks
\* One metadata row of the image: its mask file's pixelData and its pathology
\* code (1 benign, 2 malignant).
Row(mask, pathology) == [mask |-> mask, pathology |-> pathology]

\* Variant: any nonzero mask pixel counts.
MaskPxNonzero(v) == IF v # 0 THEN 1 ELSE 0

\* (pixelData / 255).astype(np.uint8): the quotient truncated, in 8 bits.
MaskPx(v) == (v \div 255) % 256

\* labels = 0; labels += mask_px * mask.pathology for every row.  The model's
\* rows are few enough for the sum to stay below 256.
RECURSIVE LabelSum(_, _, _, _)
LabelSum(rows, n, r, c) ==
  IF n = 0 THEN 0
  ELSE LabelSum(rows, n - 1, r, c)
       + MaskPx(rows[n].mask.px[r][c]) * rows[n].pathology

CombineMasks(rows) ==
  IF Len(rows) = 0 THEN Scalar0
  ELSE Arr(rows[1].mask.h, rows[1].mask.w, 8,
           LAMBDA r, c : LabelSum(rows, Len(rows), r, c))

\* ------------------------------------------------------------ RSNA: _fix_photometric_inter, _windowing
\* Scan metadata.  Window centers are held in halves (center = half / 2), so
\* that 2047.5 is a center; widths are integers >= 1.  multi: WindowWidth is
\* a list.
NoScan ==
  [PhotometricInterpretation |-> "MONOCHROME2", VOILUTFunction |-> "LINEAR",
   multi |-> FALSE, centers |-> <<0>>, widths |-> <<1>>, BitsStored |-> 0]

FixPhotometricInter(scan, img) ==
  IF scan.PhotometricInterpretation = "MONOCHROME1"
  THEN LET m == ImgMax(img)
       IN  Arr(img.h, img.w, img.bits, LAMBDA r, c : m - img.px[r][c])
  ELSE img

RECURSIVE SeqSum(_)
SeqSum(s) == IF Len(s) = 0 THEN 0 ELSE s[1] + SeqSum(Tail(s))

\* Twice the center: int(np.mean(WindowCenter)) for a list, else the value.
Center2(scan) ==
  IF scan.multi
  THEN 2 * (SeqSum(scan.centers) \div (2 * Len(scan.centers)))
  ELSE scan.centers[1]

Width(scan) == scan.widths[1]

\* Variant: the range taken as 2^BitsStored.
YRangePow(scan) == 2 ^ scan.BitsStored

YRange(scan) == 2 ^ scan.BitsStored - 1

\* The linear branch on one pixel p, with c2 twice center' = center - 0.5 and
\* wp = width' = width - 1.  The three assignments are made into the integer
\* pixel array, so the value of the formula is truncated when it is stored.
WindowPixel(p, c2, wp, y) ==
  LET below == 2 * p <= c2 - wp
      above == 2 * p > c2 + wp
  IN  IF above THEN y
      ELSE IF below THEN 0
      ELSE ((2 * p - c2 + wp) * y) \div (2 * wp)

Windowing(scan, img) ==
  Arr(img.h, img.w, img.bits,
      LAMBDA r, c : WindowPixel(img.px[r][c], Center2(scan) - 1,
                                Width(scan) - 1, YRange(scan)))

\* ------------------------------------------------------------ state
\* jobs[j] is the call preprocess_image(self.images[j]) of the batch:
\*   src, rows, scan   what the path stands for: the file's pixelData, the
\*                     rows of self.df for it, the DICOM attributes;
\*   stage             the next statement of preprocess_image ("queued": not
\*                     dispatched; "done": returned; "error": raised err at
\*                     stage errAt; "cancelled": dropped by the aborted batch);
\*   img, labels       the local variables;
\*   prev, prevLabels  their values before the last stage, contour the contour
\*                     the last stage selected (history, for the properties).
\* batch is the call preprocess_all: "running", "done" (it returned) or
\* "aborted" (it raised).
VARIABLES jobs, batch

vars == <<jobs, batch>>

ImageSize == <<TargetH, TargetW>>

NewJob(src, rows, scan, stage, img, labels) ==
  [src |-> src, rows |-> rows, scan |-> scan, stage |-> stage,
   img |-> img, labels |-> labels, prev |-> img, prevLabels |-> labels,
   contour |-> <<>>, err |-> "none", errAt |-> "none"]

Jobs == DOMAIN jobs

Advance(j, next, img, labels, contour) ==
  jobs' = [jobs EXCEPT ![j] =
             [jobs[j] EXCEPT !.stage = next, !.img = img, !.labels = labels,
                             !.prev = jobs[j].img, !.prevLabels = jobs[j].labels,
                             !.contour = contour]]

Fail(j, e) ==
  jobs' = [jobs EXCEPT ![j] =
             [jobs[j] EXCEPT !.stage = "error", !.err = e, !.errAt = jobs[j].stage]]

At(j, stage) == batch = "running" /\ jobs[j].stage = stage

\* ------------------------------------------------------------ preprocess_image, CBIS-DDSM
CombineMasksStage(j) ==
  /\ At(j, "combine_masks")
  /\ Advance(j, "correct_side", jobs[j].img, CombineMasks(jobs[j].rows), <<>>)
  /\ UNCHANGED batch

\* np.fliplr of the int 0 raises ValueError.
CorrectSideStage(j) ==
  /\ At(j, "correct_side")
  /\ LET job == jobs[j]
     IN  IF KeepsSide(job.img)
         THEN Advance(j, "remove_background", job.img, job.labels, <<>>)
         ELSE IF job.labels.kind = "scalar" THEN Fail(j, "ValueError")
         ELSE Advance(j, "remove_background", Fliplr(job.img),
                      IF job.labels.kind = "array" THEN Fliplr(job.labels)
                      ELSE job.labels, <<>>)
  /\ UNCHANGED batch

RemoveBackgroundStage(j) ==
  /\ At(j, "remove_background")
  /\ LET job == jobs[j]
         found == LargestContours(Binarize(job.img))
     IN  IF found = {} THEN Fail(j, "ValueError")
         ELSE \E ct \in found :
                Advance(j, "crop_roi", RemoveBackground(job.img, ct), job.labels, ct)
  /\ UNCHANGED batch

\* Slicing the int 0 raises TypeError.
CropRoiStage(j) ==
  /\ At(j, "crop_roi")
  /\ LET job == jobs[j]
         found == LargestContours(Binarize(job.img))
     IN  IF found = {} THEN Fail(j, "ValueError")
         ELSE IF job.labels.kind = "scalar" THEN Fail(j, "TypeError")
         ELSE \E ct \in found :
                Advance(j, "resize_to_height", CropRoi(job.img, ct),
                        IF job.labels.kind = "array" THEN CropRoi(job.labels, ct)
                        ELSE job.labels, ct)
  /\ UNCHANGED batch

\* r = h / w divides by zero for an empty width, size[0] / r for an empty
\* height; cv2.resize rejects a destination of width 0.
ResizeToHeightStage(j) ==
  /\ At(j, "resize_to_height")
  /\ LET job == jobs[j]
     IN  IF job.img.w = 0 \/ job.img.h = 0 THEN Fail(j, "ZeroDivisionError")
         ELSE \E nw \in NewWidths(ImageSize, job.img.h, job.img.w) :
                IF nw = 0 THEN Fail(j, "cv2.error")
                ELSE Advance(j, "padresize_to_width",
                             ResizeToHeightImg(job.img, ImageSize, nw),
                             IF job.labels.kind = "array"
                             THEN ResizeToHeightMask(job.labels, ImageSize, nw)
                             ELSE job.labels, <<>>)
  /\ UNCHANGED batch

PadResizeToWidthStage(j) ==
  /\ At(j, "padresize_to_width")
  /\ LET job == jobs[j]
     IN  Advance(j, "contrast", PadResizeImg(job.img, ImageSize),
                 IF job.labels.kind = "array"
                 THEN PadResizeMask(job.img, ImageSize, job.labels)
                 ELSE job.labels, <<>>)
  /\ UNCHANGED batch

NanCasts(img) == IF ImgMax(img) = 0 THEN 0..255 ELSE {0}

\* hist_eq true.
HistEqStage(j) ==
  /\ At(j, "contrast")
  /\ \E nan8 \in NanCasts(jobs[j].img) :
       Advance(j, "done", HistEq(jobs[j].img, nan8), jobs[j].labels, <<>>)
  /\ UNCHANGED batch

\* hist_eq false.
ConvertTo8bitStage(j) ==
  /\ At(j, "contrast")
  /\ \E nan8 \in NanCasts(jobs[j].img) :
       Advance(j, "done", ConvertTo8bit(jobs[j].img, nan8), jobs[j].labels, <<>>)
  /\ UNCHANGED batch

\* ------------------------------------------------------------ preprocess_image, RSNA
FixPhotometricInterStage(j) ==
  /\ At(j, "fix_photometric_inter")
  /\ Advance(j, "windowing", FixPhotometricInter(jobs[j].scan, jobs[j].img),
             jobs[j].labels, <<>>)
  /\ UNCHANGED batch

\* The SIGMOID branch (an exponential) is outside the model.
WindowingStage(j) ==
  /\ At(j, "windowing")
  /\ jobs[j].scan.VOILUTFunction # "SIGMOID"
  /\ Advance(j, "correct_side", Windowing(jobs[j].scan, jobs[j].img),
             jobs[j].labels, <<>>)
  /\ UNCHANGED batch

\* ------------------------------------------------------------ preprocess_all
\* The images of one batch, and the workers Parallel(n_jobs) runs at a time.
NumImages == 3
NJobs == 2

InFlight ==
  {j \in Jobs : jobs[j].stage \notin {"queued", "done", "error", "cancelled"}}

\* Parallel hands the calls out in the order of self.images, to at most n_jobs
\* workers, and hands out no more once a call has raised.
Dispatch(j) ==
  /\ batch = "running"
  /\ jobs[j].stage = "queued"
  /\ \A i \in Jobs : i < j => jobs[i].stage # "queued"
  /\ \A i \in Jobs : jobs[i].stage # "error"
  /\ Cardinality(InFlight) < NJobs
  /\ jobs' = [jobs EXCEPT ![j].stage = "combine_masks"]
  /\ UNCHANGED batch

\* preprocess_image catches nothing and preprocess_all wraps Parallel in no
\* try: the exception of a call is raised again by Parallel in the caller,
\* the calls not yet handed out are dropped and those under way are lost with
\* their workers.
AbortBatch ==
  /\ batch = "running"
  /\ \E i \in Jobs : jobs[i].stage = "error"
  /\ batch' = "aborted"
  /\ jobs' = [j \in Jobs |->
                IF jobs[j].stage \in {"done", "error"} THEN jobs[j]
                ELSE [jobs[j] EXCEPT !.stage = "cancelled"]]

\* print("Parallel preprocessing done!")
FinishBatch ==
  /\ batch = "running"
  /\ \A j \in Jobs : jobs[j].stage = "done"
  /\ batch' = "done"
  /\ UNCHANGED jobs

\* ------------------------------------------------------------ inputs
Dtypes == {8, 16}

Solid(h, w, bits, v) == Arr(h, w, bits, LAMBDA r, c : v)

LitChoices(h, w) ==
  {S \in SUBSET ((0..(h - 1)) \X (0..(w - 1))) : Cardinality(S) <= MaxLit}

\* The image whose pixels are f on f's domain and 0 elsewhere.
ImageOf(h, w, bits, f) ==
  Arr(h, w, bits, LAMBDA r, c : IF <<r, c>> \in DOMAIN f THEN f[<<r, c>>] ELSE 0)

FullMask(h, w) == Solid(h, w, 8, 255)

CornerMask(h, w) == Arr(h, w, 8, LAMBDA r, c : IF r = 0 /\ c = 0 THEN 255 ELSE 0)

\* The rows of an image: none, one benign mass over the whole image, or that
\* and a malignant one at the corner.
RowChoices(h, w) ==
  { <<>>, <<Row(FullMask(h, w), 1)>>,
    <<Row(FullMask(h, w), 1), Row(CornerMask(h, w), 2)>> }

\* ------------------------------------------------------------ specifications
\* One CBIS-DDSM image through preprocess_image.
Init ==
  /\ batch = "running"
  /\ \E h \in 1..MaxH, w \in 1..MaxW, bits \in Dtypes :
       \E S \in LitChoices(h, w) :
         \E f \in [S -> {1, Bright}], rows \in RowChoices(h, w) :
           jobs = << NewJob(ImageOf(h, w, bits, f), rows, NoScan,
                            "combine_masks", ImageOf(h, w, bits, f), None) >>

Next ==
  \/ \E j \in Jobs : CombineMasksStage(j)
  \/ \E j \in Jobs : CorrectSideStage(j)
  \/ \E j \in Jobs : RemoveBackgroundStage(j)
  \/ \E j \in Jobs : CropRoiStage(j)
  \/ \E j \in Jobs : ResizeToHeightStage(j)
  \/ \E j \in Jobs : PadResizeToWidthStage(j)
  \/ \E j \in Jobs : HistEqStage(j)
  \/ \E j \in Jobs : ConvertTo8bitStage(j)

Spec == Init /\ [][Next]_vars

\* A batch of CBIS-DDSM images through preprocess_all: a full bright image,
\* an all-zero one, one of a single bright pixel.
Library ==
  {Solid(3, 3, 16, Bright), Solid(2, 2, 16, 0), Solid(1, 1, 16, Bright)}

InitBatch ==
  /\ batch = "running"
  /\ \E imgs \in [1..NumImages -> Library] :
       jobs = [j \in 1..NumImages |->
                 NewJob(imgs[j], <<Row(FullMask(imgs[j].h, imgs[j].w), 1)>>,
                        NoScan, "queued", imgs[j], None)]

NextBatch ==
  \/ \E j \in Jobs : Dispatch(j)
  \/ Next
  \/ AbortBatch
  \/ FinishBatch

SpecBatch == InitBatch /\ [][NextBatch]_vars

\* _padresize_to_width alone, on every bounded image, without a mask and with
\* one of the image's shape.
InitPad ==
  /\ batch = "running"
  /\ \E h \in 1..MaxH, w \in 1..MaxW, bits \in Dtypes :
       \E S \in LitChoices(h, w) :
         \E f \in [S -> {1, Bright}],
            labels \in {None} \cup {CombineMasks(rows) :
                                      rows \in RowChoices(h, w) \ {<<>>}} :
           jobs = << NewJob(ImageOf(h, w, bits, f), <<>>, NoScan,
                            "padresize_to_width", ImageOf(h, w, bits, f), labels) >>

NextPad == \E j \in Jobs : PadResizeToWidthStage(j)

SpecPad == InitPad /\ [][NextPad]_vars

\* _convert_to_8bit alone, on every one-row image of at most MaxLen pixels
\* with values up to MaxVal.
MaxLen == 3
MaxVal == 4

RowImages(maxlen, vals, bits) ==
  UNION {{Arr(1, n, bits, LAMBDA r, c : f[c]) : f \in [0..(n - 1) -> vals]} :
           n \in 1..maxlen}

InitQuant ==
  /\ batch = "running"
  /\ \E img \in RowImages(MaxLen, 0..MaxVal, 16) :
       jobs = << NewJob(img, <<>>, NoScan, "contrast", img, None) >>

NextQuant == \E j \in Jobs : ConvertTo8bitStage(j)

SpecQuant == InitQuant /\ [][NextQuant]_vars

\* _combine_masks alone: up to MaxRows rows, whose 8-bit mask files have one
\* row of up to MaxMaskW pixels with values in MaskVals.
MaxRows == 2
MaxMaskW == 2

MaskVals == {0, 128, 255}

RowSeqs(w) ==
  LET row == {Row(m, p) : m \in RowImages(w, MaskVals, 8) \ RowImages(w - 1, MaskVals, 8),
                          p \in {1, 2}}
  IN  UNION {[1..n -> row] : n \in 1..MaxRows}

InitMasks ==
  /\ batch = "running"
  /\ \E w \in 1..MaxMaskW :
       \E rows \in RowSeqs(w) :
         jobs = << NewJob(Solid(1, w, 16, Bright), rows, NoScan,
                          "combine_masks", Solid(1, w, 16, Bright), None) >>

NextMasks == \E j \in Jobs : CombineMasksStage(j)

SpecMasks == InitMasks /\ [][NextMasks]_vars

\* The RSNA radiometric stages: two raw pixels with values up to MaxRaw, up to
\* MaxBits bits stored, window centers up to MaxCenter2 halves and widths up
\* to MaxWidth, given as one value or as a list of two.
MaxRaw == 4
MaxBits == 3
MaxCenter2 == 8
MaxWidth == 4

Scans ==
  {[PhotometricInterpretation |-> pi, VOILUTFunction |-> "LINEAR",
    multi |-> FALSE, centers |-> <<c>>, widths |-> <<wd>>, BitsStored |-> b] :
     pi \in {"MONOCHROME1", "MONOCHROME2"}, c \in 0..MaxCenter2,
     wd \in 1..MaxWidth, b \in 1..MaxBits}
  \cup
  {[PhotometricInterpretation |-> pi, VOILUTFunction |-> "LINEAR",
    multi |-> TRUE, centers |-> <<c, d>>, widths |-> <<wd, MaxWidth>>,
    BitsStored |-> b] :
     pi \in {"MONOCHROME1", "MONOCHROME2"}, c \in 0..MaxCenter2,
     d \in 0..MaxCenter2, wd \in 1..MaxWidth, b \in 1..MaxBits}

InitWindow ==
  /\ batch = "running"
  /\ \E scan \in Scans :
       \E img \in RowImages(2, 0..MaxRaw, 16) \ RowImages(1, 0..MaxRaw, 16) :
         jobs = << NewJob(img, <<>>, scan, "fix_photometric_inter", img, None) >>

NextWindow ==
  \/ \E j \in Jobs : FixPhotometricInterStage(j)
  \/ \E j \in Jobs : WindowingStage(j)

SpecWindow == InitWindow /\ [][NextWindow]_vars

\* ------------------------------------------------------------ properties
Done(j) == jobs[j].stage = "done"

AllZero(a) == \A v \in Values(a) : v = 0

\* C1: whenever preprocess_image completes, the image has shape exactly
\* (image_size[0], image_size[1]) and the mask, when there is one, has that
\* shape too, whatever the shape of the input was.
C1_FinalShape ==
  \A j \in Jobs :
    Done(j) =>
      /\ jobs[j].img.h = TargetH /\ jobs[j].img.w = TargetW
      /\ jobs[j].labels.kind # "none" =>
           /\ jobs[j].labels.kind = "array"
           /\ jobs[j].labels.h = TargetH /\ jobs[j].labels.w = TargetW

\* An image of another height and width than the target completed, with its
\* mask.
C1_Witness ==
  \E j \in Jobs :
    /\ Done(j)
    /\ jobs[j].src.h # TargetH /\ jobs[j].src.w # TargetW
    /\ jobs[j].labels.kind = "array"

\* C3 as claimed: _correct_side applied to its own output returns it
\* unchanged, right-half sum <= left-half sum after one application, and the
\* image was mirrored only if its right half's sum exceeded the left half's.
C3_SideIdempotent ==
  \A j \in Jobs :
    jobs[j].stage = "remove_background" =>
      /\ CorrectSide(jobs[j].img) = jobs[j].img
      /\ RightSum(jobs[j].img) <= LeftSum(jobs[j].img)
      /\ jobs[j].img # jobs[j].prev =>
           RightSum(jobs[j].prev) > LeftSum(jobs[j].prev)

\* C4 as claimed: a call that raises aborts only its own image: the batch is
\* not aborted and no other image is left unprocessed.
C4_FailureIsLocal ==
  /\ batch # "aborted"
  /\ \A j \in Jobs : jobs[j].stage # "cancelled"

\* C5: an all-zero input image never gets past the contour search: binarize
\* yields no foreground, the search raises, and neither the background
\* removal nor the crop runs on it.
C5_ZeroImageRaises ==
  \A j \in Jobs :
    AllZero(jobs[j].src) =>
      /\ jobs[j].stage \in {"queued", "combine_masks", "correct_side",
                            "remove_background", "error"}
      /\ jobs[j].stage = "error" =>
           /\ jobs[j].err = "ValueError"
           /\ jobs[j].errAt \in {"correct_side", "remove_background"}
           /\ AllZero(jobs[j].img)

\* The contour search raised on an all-zero image.
C5_Witness ==
  \E j \in Jobs :
    /\ AllZero(jobs[j].src)
    /\ jobs[j].stage = "error"
    /\ jobs[j].errAt = "remove_background"

\* C6 as claimed: when _crop_roi returns, the crop has height >= 1 and
\* width >= 1 (a degenerate contour raises instead).
C6_CropNotEmpty ==
  \A j \in Jobs :
    jobs[j].stage = "resize_to_height" =>
      jobs[j].img.h >= 1 /\ jobs[j].img.w >= 1

\* C10 as claimed: _remove_background zeroes every pixel outside the filled
\* largest contour and keeps every pixel inside it at its original value.
C10_InsideKept ==
  \A j \in Jobs :
    jobs[j].stage = "crop_roi" =>
      \A rc \in Cells(jobs[j].img) :
        jobs[j].img.px[rc[1]][rc[2]] =
          IF <<rc[2], rc[1]>> \in FillRegion(jobs[j].contour, jobs[j].img.h, jobs[j].img.w)
          THEN jobs[j].prev.px[rc[1]][rc[2]] ELSE 0

\* b is a with zero-valued columns added on the right and nothing else changed.
RightPadded(a, b) ==
  /\ b.h = a.h
  /\ \A rc \in Cells(b) :
       b.px[rc[1]][rc[2]] = IF rc[2] < a.w THEN a.px[rc[1]][rc[2]] ELSE 0

\* C2: for every input width _padresize_to_width returns an image, and a mask
\* when one is given, of width size[1] exactly; a narrower input gets
\* zero-valued columns on the right and keeps its own columns, and an input of
\* the target width is returned unchanged.
C2_WidthExact ==
  \A j \in Jobs :
    jobs[j].stage = "contrast" =>
      /\ jobs[j].img.w = TargetW
      /\ jobs[j].prevLabels.kind = "array" =>
           jobs[j].labels.kind = "array" /\ jobs[j].labels.w = TargetW
      /\ jobs[j].prevLabels.kind = "none" => jobs[j].labels = None
      /\ jobs[j].prev.w < TargetW =>
           /\ RightPadded(jobs[j].prev, jobs[j].img)
           /\ jobs[j].prevLabels.kind = "array" =>
                RightPadded(jobs[j].prevLabels, jobs[j].labels)
      /\ jobs[j].prev.w = TargetW =>
           jobs[j].img = jobs[j].prev /\ jobs[j].labels = jobs[j].prevLabels

\* A narrower image that is not all zero was padded, with its mask.
C2_Witness ==
  \E j \in Jobs :
    /\ jobs[j].stage = "contrast"
    /\ jobs[j].prev.w < TargetW
    /\ jobs[j].prevLabels.kind = "array"
    /\ ~AllZero(jobs[j].prev)
    /\ jobs[j].img.w = TargetW

\* The RSNA job j has been through _windowing: img holds the windowed pixels,
\* prev the pixels before.
Windowed(j) == jobs[j].stage = "correct_side" /\ jobs[j].labels.kind = "none"

\* C7 as claimed, with c2 twice center' and wp = width': a pixel
\* <= center' - width'/2 maps to 0, one > center' + width'/2 to y_range, one
\* equal to center' + width'/2 to y_range, and one strictly between to
\* ((p - center') / width' + 0.5) * y_range.
C7_LinearExact ==
  \A j \in Jobs :
    Windowed(j) =>
      LET c2 == Center2(jobs[j].scan) - 1
          wp == Width(jobs[j].scan) - 1
          y == 2 ^ jobs[j].scan.BitsStored - 1
      IN  \A rc \in Cells(jobs[j].img) :
            LET p == jobs[j].prev.px[rc[1]][rc[2]]
                q == jobs[j].img.px[rc[1]][rc[2]]
            IN  /\ 2 * p <= c2 - wp => q = 0
                /\ 2 * p > c2 + wp => q = y
                /\ 2 * p = c2 + wp => q = y
                /\ (2 * p > c2 - wp /\ 2 * p < c2 + wp) =>
                     q * 2 * wp = (2 * p - c2 + wp) * y

\* C7 as amended: the pixel equal to center' + width'/2 maps to y_range when
\* width' > 0 (with width' = 0 it is also <= center' - width'/2 and maps to
\* 0), and a pixel strictly between maps to the value of the formula
\* truncated to an integer.
C7_LinearTruncated ==
  \A j \in Jobs :
    Windowed(j) =>
      LET c2 == Center2(jobs[j].scan) - 1
          wp == Width(jobs[j].scan) - 1
          y == 2 ^ jobs[j].scan.BitsStored - 1
      IN  \A rc \in Cells(jobs[j].img) :
            LET p == jobs[j].prev.px[rc[1]][rc[2]]
                q == jobs[j].img.px[rc[1]][rc[2]]
            IN  /\ 2 * p <= c2 - wp => q = 0
                /\ 2 * p > c2 + wp => q = y
                /\ (2 * p = c2 + wp /\ wp > 0) => q = y
                /\ (2 * p > c2 - wp /\ 2 * p < c2 + wp) =>
                     /\ q * 2 * wp <= (2 * p - c2 + wp) * y
                     /\ (2 * p - c2 + wp) * y < (q + 1) * 2 * wp

\* A pixel strictly between the cuts whose formula value is no integer, and a
\* pixel on the high cut, were windowed.
C7_Witness ==
  \E j \in Jobs :
    /\ Windowed(j)
    /\ LET c2 == Center2(jobs[j].scan) - 1
           wp == Width(jobs[j].scan) - 1
           y == 2 ^ jobs[j].scan.BitsStored - 1
       IN  /\ \E rc \in Cells(jobs[j].img) :
                LET p == jobs[j].prev.px[rc[1]][rc[2]]
                IN  /\ 2 * p > c2 - wp /\ 2 * p < c2 + wp
                    /\ ((2 * p - c2 + wp) * y) % (2 * wp) # 0
           /\ \E rc \in Cells(jobs[j].img) :
                /\ 2 * jobs[j].prev.px[rc[1]][rc[2]] = c2 + wp
                /\ wp > 0
                /\ jobs[j].img.px[rc[1]][rc[2]] = y

NonConstant(a) == Cardinality(Values(a)) > 1

\* C8 as claimed: for a non-constant input the output of _convert_to_8bit
\* lies in 0..255, its maximum is 255 and its minimum is 0.
C8_FullRange ==
  \A j \in Jobs :
    (Done(j) /\ NonConstant(jobs[j].prev)) =>
      /\ Values(jobs[j].img) \subseteq 0..255
      /\ ImgMax(jobs[j].img) = 255
      /\ ImgMin(jobs[j].img) = 0

\* C8 as amended: the output lies in 0..255 and its maximum is 255; its
\* minimum is 0 exactly when 255 times the input's minimum is below the
\* input's maximum.
C8_MaxOnly ==
  \A j \in Jobs :
    (Done(j) /\ NonConstant(jobs[j].prev)) =>
      /\ Values(jobs[j].img) \subseteq 0..255
      /\ ImgMax(jobs[j].img) = 255
      /\ ImgMin(jobs[j].img) = 0 <=>
           255 * ImgMin(jobs[j].prev) < ImgMax(jobs[j].prev)

\* A non-constant image whose minimum is above 0 was quantized, and the
\* minimum of the output is above 0.
C8_Witness ==
  \E j \in Jobs :
    /\ Done(j)
    /\ NonConstant(jobs[j].prev)
    /\ ImgMin(jobs[j].prev) > 0
    /\ ImgMin(jobs[j].img) > 0
    /\ ImgMax(jobs[j].img) = 255

\* Job j, an image with metadata rows, has been through _combine_masks.
Combined(j) == jobs[j].stage = "correct_side" /\ Len(jobs[j].rows) >= 1

\* C9 as claimed: each pixel of the combined mask is the sum over the rows of
\* the pathology codes of the rows whose mask file is nonzero there.
C9_NonzeroCounts ==
  \A j \in Jobs :
    Combined(j) =>
      /\ jobs[j].labels.kind = "array"
      /\ \A rc \in Cells(jobs[j].labels) :
           jobs[j].labels.px[rc[1]][rc[2]] =
             SumTo(Len(jobs[j].rows) - 1,
                   [i \in 0..(Len(jobs[j].rows) - 1) |->
                      IF jobs[j].rows[i + 1].mask.px[rc[1]][rc[2]] # 0
                      THEN jobs[j].rows[i + 1].pathology ELSE 0])

\* C9 as amended, for 8-bit mask files: each pixel is the sum of the codes of
\* the rows whose mask file is 255 there; any other value counts as 0.
C9_Only255Counts ==
  \A j \in Jobs :
    Combined(j) =>
      /\ jobs[j].labels.kind = "array"
      /\ \A rc \in Cells(jobs[j].labels) :
           jobs[j].labels.px[rc[1]][rc[2]] =
             SumTo(Len(jobs[j].rows) - 1,
                   [i \in 0..(Len(jobs[j].rows) - 1) |->
                      IF jobs[j].rows[i + 1].mask.px[rc[1]][rc[2]] = 255
                      THEN jobs[j].rows[i + 1].pathology ELSE 0])

\* A pixel that a benign and a malignant mask both cover got the value 3.
C9_Witness ==
  \E j \in Jobs :
    /\ Combined(j)
    /\ Len(jobs[j].rows) = 2
    /\ jobs[j].rows[1].pathology = 1 /\ jobs[j].rows[2].pathology = 2
    /\ \E rc \in Cells(jobs[j].labels) :
         /\ jobs[j].rows[1].mask.px[rc[1]][rc[2]] = 255
         /\ jobs[j].rows[2].mask.px[rc[1]][rc[2]] = 255
         /\ jobs[j].labels.px[rc[1]][rc[2]] = 3
====
